---- MODULE Spec2Model ----
(***************************************************************************)
(* Model of src/src/variables.cpp (Skyrim SE Journal, "Journal Variables"): *)
(* the relocation chains, replace_all, the two game formatters and the      *)
(* catalog built by make_variables.                                         *)
(*                                                                          *)
(* Text is a sequence of one-character strings, indexed from 1; the C++     *)
(* positions (std::size_t n, find's result) are 0-based as in the source.   *)
(***************************************************************************)
EXTENDS Integers, Sequences, FiniteSets, TLC

VARIABLES
    skyrim_base,   \* static std::uintptr_t skyrim_base
    chains,        \* the offsets arrays of game_epoch, player_pos, player_cell, worldspace_name
    vars,          \* the catalog make_variables returned
    pc,            \* "start" before make_variables, "ready" after it
    sseh,          \* what the offset-discovery collaborator answered (history)
    call,          \* the render in progress: its inputs, what it read and what it returns
    ra,            \* one run of replace_all: its arguments, data, n and position
    ob             \* one call of relocation::obtain: chain, memory, result, reads

allvars == <<skyrim_base, chains, vars, pc, sseh, call, ra, ob>>

-----------------------------------------------------------------------------
(* Bounds of the model *)

\* the address space is 0 .. AddrSpace-1 and pointer arithmetic wraps at it
\* (it stands for 2^64 of std::uintptr_t)
AddrSpace == 3
\* longest text, token and replacement given to one replace_all run
MaxText == 3
MaxToken == 2
MaxRepl == 4

Addr == 0 .. (AddrSpace - 1)

Min(S) == CHOOSE x \in S : \A y \in S : x <= y

\* all sequences over A of length 0 .. n
RECURSIVE SeqsUpTo(_, _)
SeqsUpTo(A, n) ==
    IF n = 0 THEN { <<>> }
    ELSE LET shorter == SeqsUpTo(A, n - 1)
         IN shorter \cup { Append(s, a) : s \in { t \in shorter : Len(t) = n - 1 }, a \in A }

-----------------------------------------------------------------------------
(* relocation<T,N>::obtain *)

\* the instantiations of relocation<T,N> in the file: N = 1 (game_epoch,
\* player_pos) and N = 3 (player_cell, worldspace_name)
HopCounts == {1, 3}

\* the loop of obtain from hop i on; offsets[i+1] is the source's offsets[i].
\* result 0 is nullptr; reads lists the addresses dereferenced, in order.
RECURSIVE obtain_loop(_, _, _, _, _)
obtain_loop(that, offsets, i, mem, reads) ==
    IF i >= Len(offsets) - 1
    THEN [result |-> (that + offsets[Len(offsets)]) % AddrSpace, reads |-> reads]
    ELSE LET addr == (that + offsets[i + 1]) % AddrSpace
             next == mem[addr]
         IN IF next = 0
            THEN [result |-> 0, reads |-> Append(reads, addr)]
            ELSE obtain_loop(next, offsets, i + 1, mem, Append(reads, addr))

obtain_skips_null_check(base, offsets, mem) ==
    LET RECURSIVE go(_, _, _)
        go(that, i, reads) ==
            IF i >= Len(offsets) - 1
            THEN [result |-> (that + offsets[Len(offsets)]) % AddrSpace, reads |-> reads]
            ELSE LET addr == (that + offsets[i + 1]) % AddrSpace
                 IN go(mem[addr], i + 1, Append(reads, addr))
    IN go(base, 0, <<>>)

obtain(base, offsets, mem) == obtain_loop(base, offsets, 0, mem, <<>>)

-----------------------------------------------------------------------------
(* replace_all *)

npos == -1

find_first_of(data, search, from) ==
    LET hits == { i \in from .. (Len(data) - 1) :
                    \E k \in 1 .. Len(search) : data[i + 1] = search[k] }
    IN IF hits = {} THEN npos ELSE Min(hits)

\* data.find (search, from): the first position >= from where search occurs
find(data, search, from) ==
    LET hits == { i \in from .. (Len(data) - Len(search)) :
                    SubSeq(data, i + 1, i + Len(search)) = search }
    IN IF hits = {} THEN npos ELSE Min(hits)

replace_step_rescans(data, n, search, replace) ==
    LET d == SubSeq(data, 1, n) \o replace \o SubSeq(data, n + Len(search) + 1, Len(data))
    IN [data |-> d, n |-> find(d, search, n)]

\* the body of the while loop: data.replace (n, search.size (), replace), then
\* n = data.find (search, n + replace.size ())
replace_step(data, n, search, replace) ==
    LET d == SubSeq(data, 1, n) \o replace \o SubSeq(data, n + Len(search) + 1, Len(data))
    IN [data |-> d, n |-> find(d, search, n + Len(replace))]

RECURSIVE replace_loop(_, _, _, _)
replace_loop(data, n, search, replace) ==
    IF n = npos THEN data
    ELSE LET s == replace_step(data, n, search, replace)
         IN replace_loop(s.data, s.n, search, replace)

replace_all(data, search, replace) ==
    replace_loop(data, find(data, search, 0), search, replace)

-----------------------------------------------------------------------------
(* Numbers and their text *)

\* the value the sentinel return carries
NA == <<"(", "n", "/", "a", ")">>

digit == <<"0", "1", "2", "3", "4", "5", "6", "7", "8", "9">>

RECURSIVE natural_text(_)
natural_text(k) ==
    IF k < 10 THEN << digit[k + 1] >>
    ELSE Append(natural_text(k \div 10), digit[(k % 10) + 1])

\* std::to_string (int)
to_string(k) == IF k < 0 THEN <<"-">> \o natural_text(0 - k) ELSE natural_text(k)

\* INT_MAX of the 32-bit int the calendar is computed in
INT_MAX == 2147483647

\* a + b in a 32-bit int register, for a, b >= 0 (two's complement wrap)
add_int(a, b) ==
    IF a > INT_MAX - b THEN (a - INT_MAX - 1) + (b - INT_MAX - 1) ELSE a + b

\* C++ integer division and remainder (truncation toward zero)
c_div(a, b) == IF a >= 0 THEN a \div b ELSE 0 - ((0 - a) \div b)
c_rem(a, b) == a - b * c_div(a, b)

-----------------------------------------------------------------------------
(* float *)

\* A float read from game memory is [cls, neg, ip, fn]: its class, its sign and,
\* for a finite one, its magnitude ip + fn / FracDen as an integer part and a
\* fraction in units of 2^-25.
FracDen == 33554432

isnormal(f) == f.cls = "normal"
isfinite(f) == f.cls \in {"normal", "zero", "subnormal"}
less_than_zero(f) == f.neg /\ f.cls \in {"normal", "subnormal", "inf"}

\* the number of binary digits of k > 0
RECURSIVE bits(_)
bits(k) == IF k <= 1 THEN 1 ELSE 1 + bits(k \div 2)

RECURSIVE pow2(_)
pow2(k) == IF k = 0 THEN 1 ELSE 2 * pow2(k - 1)

\* a float product, in units of 2^-25: k rounded to 24 significant bits,
\* ties to even
round_float(k) ==
    IF bits(k) <= 24 THEN k
    ELSE LET unit == pow2(bits(k) - 24)
             q == k \div unit
             rem == k % unit
             up == (2 * rem > unit) \/ (2 * rem = unit /\ q % 2 = 1)
         IN (IF up THEN q + 1 ELSE q) * unit

\* std::to_string (float): "%f", six decimals, the exact value rounded to nearest
RECURSIVE decimals(_, _, _)
decimals(acc, rem, k) ==
    IF k = 0 THEN [acc |-> acc, rem |-> rem]
    ELSE decimals(acc * 10 + (rem * 10) \div FracDen, (rem * 10) % FracDen, k - 1)

RECURSIVE pad_left(_, _)
pad_left(s, k) == IF Len(s) >= k THEN s ELSE pad_left(<<"0">> \o s, k)

float_text(f) ==
    LET d == decimals(0, f.fn, 6)
        up == (2 * d.rem > FracDen) \/ (2 * d.rem = FracDen /\ d.acc % 2 = 1)
        frac == IF up THEN d.acc + 1 ELSE d.acc
        carry == IF frac = 1000000 THEN 1 ELSE 0
    IN (IF f.neg THEN <<"-">> ELSE <<>>) \o natural_text(f.ip + carry) \o <<".">>
         \o pad_left(natural_text(frac - carry * 1000000), 6)

-----------------------------------------------------------------------------
(* game_time: the calendar *)

months == <<31, 59, 90, 120, 151, 181, 212, 243, 273, 304, 334, 365>>

longmon == <<
    <<"M", "o", "r", "n", "i", "n", "g", " ", "S", "t", "a", "r">>,
    <<"S", "u", "n", "'", "s", " ", "D", "a", "w", "n">>,
    <<"F", "i", "r", "s", "t", " ", "S", "e", "e", "d">>,
    <<"R", "a", "i", "n", "'", "s", " ", "H", "a", "n", "d">>,
    <<"S", "e", "c", "o", "n", "d", " ", "S", "e", "e", "d">>,
    <<"M", "i", "d", "y", "e", "a", "r">>,
    <<"S", "u", "n", "'", "s", " ", "H", "e", "i", "g", "h", "t">>,
    <<"L", "a", "s", "t", " ", "S", "e", "e", "d">>,
    <<"H", "e", "a", "r", "t", "h", "f", "i", "r", "e">>,
    <<"F", "r", "o", "s", "t", "f", "a", "l", "l">>,
    <<"S", "u", "n", "'", "s", " ", "D", "u", "s", "k">>,
    <<"E", "v", "e", "n", "i", "n", "g", " ", "S", "t", "a", "r">>
>>

birtmon == <<
    <<"T", "h", "e", " ", "R", "i", "t", "u", "a", "l">>,
    <<"T", "h", "e", " ", "L", "o", "v", "e", "r">>,
    <<"T", "h", "e", " ", "L", "o", "r", "d">>,
    <<"T", "h", "e", " ", "M", "a", "g", "e">>,
    <<"T", "h", "e", " ", "S", "h", "a", "d", "o", "w">>,
    <<"T", "h", "e", " ", "S", "t", "e", "e", "d">>,
    <<"T", "h", "e", " ", "A", "p", "p", "r", "e", "n", "t", "i", "c", "e">>,
    <<"T", "h", "e", " ", "W", "a", "r", "r", "i", "o", "r">>,
    <<"T", "h", "e", " ", "L", "a", "d", "y">>,
    <<"T", "h", "e", " ", "T", "o", "w", "e", "r">>,
    <<"T", "h", "e", " ", "A", "t", "r", "o", "n", "a", "c", "h">>,
    <<"T", "h", "e", " ", "T", "h", "i", "e", "f">>
>>

argomon == <<
    <<"V", "a", "k", "k", "a", " ", "(", "S", "u", "n", ")">>,
    <<"X", "e", "e", "c", "h", " ", "(", "N", "u", "t", ")">>,
    <<"S", "i", "s", "e", "i", " ", "(", "S", "p", "r", "o", "u", "t", ")">>,
    <<"H", "i", "s", "t", "-", "D", "e", "e", "k", " ", "(", "H", "i", "s", "t", " ", "S", "a", "p", "l", "i", "n", "g", ")">>,
    <<"H", "i", "s", "t", "-", "D", "o", "o", "k", "a", " ", "(", "M", "a", "t", "u", "r", "e", " ", "H", "i", "s", "t", ")">>,
    <<"H", "i", "s", "t", "-", "T", "s", "o", "k", "o", " ", "(", "E", "l", "d", "e", "r", " ", "H", "i", "s", "t", ")">>,
    <<"T", "h", "t", "i", "t", "h", "i", "l", "-", "G", "a", "h", " ", "(", "E", "g", "g", "-", "B", "a", "s", "k", "e", "t", ")">>,
    <<"T", "h", "t", "i", "t", "h", "i", "l", " ", "(", "E", "g", "g", ")">>,
    <<"N", "u", "s", "h", "m", "e", "e", "k", "o", " ", "(", "L", "i", "z", "a", "r", "d", ")">>,
    <<"S", "h", "a", "j", "a", "-", "N", "u", "s", "h", "m", "e", "e", "k", "o", " ", "(", "S", "e", "m", "i", "-", "H", "u", "m", "a", "n", "o", "i", "d", " ", "L", "i", "z", "a", "r", "d", ")">>,
    <<"S", "a", "x", "h", "l", "e", "e", "l", " ", "(", "A", "r", "g", "o", "n", "i", "a", "n", ")">>,
    <<"X", "u", "l", "o", "m", "a", "h", "t", " ", "(", "T", "h", "e", " ", "D", "e", "c", "e", "a", "s", "e", "d", ")">>
>>

longwday == <<
    <<"S", "u", "n", "d", "a", "s">>,
    <<"M", "o", "r", "n", "d", "a", "s">>,
    <<"T", "i", "r", "d", "a", "s">>,
    <<"M", "i", "d", "d", "a", "s">>,
    <<"T", "u", "r", "d", "a", "s">>,
    <<"F", "r", "e", "d", "a", "s">>,
    <<"L", "o", "r", "e", "d", "a", "s">>
>>

shrtwday == <<
    <<"S", "u", "n">>,
    <<"M", "o", "r">>,
    <<"T", "i", "r">>,
    <<"M", "i", "d">>,
    <<"T", "u", "r">>,
    <<"F", "r", "e">>,
    <<"L", "o", "r">>
>>

\* std::lower_bound (months.cbegin (), months.cend (), yd) - months.cbegin ()
lower_bound(table, yd) == Cardinality({ i \in 1 .. Len(table) : table[i] < yd })

\* lines 207-224: what game_time computes from *source (normal, not negative)
calendar(source) ==
    LET hms1 == round_float(source.fn * 24)
        h == hms1 \div FracDen
        hms2 == round_float((hms1 % FracDen) * 60)
        m == hms2 \div FracDen
        s == round_float((hms2 % FracDen) * 60) \div FracDen
        d == add_int(source.ip, 228)
        y == c_div(d, 365) + 201
        yd == c_rem(d, 365) + 1
        wd == c_rem(d + 3, 7)
        mo == lower_bound(months, yd)
        md == IF mo # 0 THEN yd - months[mo] ELSE yd
    IN [h |-> h, m |-> m, s |-> s, d |-> d, y |-> y, yd |-> yd, wd |-> wd,
        mo |-> mo, md |-> md]

\* table[index] of a std::array; an index outside it reads whatever lies there
at(table, index, garbage) ==
    IF index \in 0 .. (Len(table) - 1) THEN table[index + 1] ELSE garbage

game_time_tokens_short_first(c, source, garbage) == <<
    << <<"%", "y">>, to_string(c.y) >>,
    << <<"%", "Y">>, <<"4", "E">> \o to_string(c.y) >>,
    << <<"%", "l", "m">>, at(longmon, c.mo, garbage) >>,
    << <<"%", "b", "m">>, at(birtmon, c.mo, garbage) >>,
    << <<"%", "a", "m">>, at(argomon, c.mo, garbage) >>,
    << <<"%", "m">>, to_string(c.m) >>,
    << <<"%", "m", "o">>, to_string(c.mo + 1) >>,
    << <<"%", "m", "d">>, to_string(c.md) >>,
    << <<"%", "s", "d">>, at(shrtwday, c.wd, garbage) >>,
    << <<"%", "l", "d">>, at(longwday, c.wd, garbage) >>,
    << <<"%", "w", "d">>, to_string(c.wd + 1) >>,
    << <<"%", "h">>, to_string(c.h) >>,
    << <<"%", "s">>, to_string(c.s) >>,
    << <<"%", "r", "i">>, to_string(c.d) >>,
    << <<"%", "r">>, float_text(source) >>
>>

\* lines 226-271: the replace_all calls of game_time, in order, as
\* <<token, replacement>>
game_time_tokens(c, source, garbage) == <<
    << <<"%", "y">>, to_string(c.y) >>,
    << <<"%", "Y">>, <<"4", "E">> \o to_string(c.y) >>,
    << <<"%", "l", "m">>, at(longmon, c.mo, garbage) >>,
    << <<"%", "b", "m">>, at(birtmon, c.mo, garbage) >>,
    << <<"%", "a", "m">>, at(argomon, c.mo, garbage) >>,
    << <<"%", "m", "o">>, to_string(c.mo + 1) >>,
    << <<"%", "m", "d">>, to_string(c.md) >>,
    << <<"%", "s", "d">>, at(shrtwday, c.wd, garbage) >>,
    << <<"%", "l", "d">>, at(longwday, c.wd, garbage) >>,
    << <<"%", "w", "d">>, to_string(c.wd + 1) >>,
    << <<"%", "h">>, to_string(c.h) >>,
    << <<"%", "m">>, to_string(c.m) >>,
    << <<"%", "s">>, to_string(c.s) >>,
    << <<"%", "r", "i">>, to_string(c.d) >>,
    << <<"%", "r">>, float_text(source) >>
>>

\* a formatter's replace_all calls applied one after the other
RECURSIVE replace_each(_, _)
replace_each(format, pairs) ==
    IF pairs = <<>> THEN format
    ELSE replace_each(replace_all(format, Head(pairs)[1], Head(pairs)[2]), Tail(pairs))

game_time_accepts_zero(leaf, source) ==
    leaf = 0 \/ source.cls \in {"nan", "inf"} \/ less_than_zero(source)

\* lines 203-205: the guard of game_time on the resolved pointer and on *source
game_time_unavailable(leaf, source) ==
    leaf = 0 \/ ~isnormal(source) \/ less_than_zero(source)

\* game_time (format), given the pointer game_epoch.obtain () returned and the
\* float stored there
game_time(format, leaf, source, garbage) ==
    IF game_time_unavailable(leaf, source) THEN NA
    ELSE replace_each(format, game_time_tokens(calendar(source), source, garbage))

-----------------------------------------------------------------------------
(* player_location *)

\* snprintf ("%.0f", pos[i]): the nearest integer (a tie goes to the even one),
\* with the sign of the float, so -0.25 prints as -0
fixed0_text(f) ==
    LET up == (2 * f.fn > FracDen) \/ (2 * f.fn = FracDen /\ f.ip % 2 = 1)
    IN (IF f.neg THEN <<"-">> ELSE <<>>) \o natural_text(IF up THEN f.ip + 1 ELSE f.ip)

\* int (std::floor (pos[i]/4096))
cell_coordinate(f) ==
    IF ~f.neg THEN f.ip \div 4096
    ELSE IF f.ip % 4096 = 0 /\ f.fn = 0 THEN 0 - (f.ip \div 4096)
    ELSE 0 - (f.ip \div 4096) - 1

\* a const char* as the std::string replace_all receives: nothing for nullptr
name_text(ptr, text) == IF ptr = 0 THEN <<>> ELSE text

\* lines 153-166: the replace_all calls of player_location, in order
player_location_tokens(pos, wn, cn) == <<
    << <<"%", "x">>, fixed0_text(pos[1]) >>,
    << <<"%", "y">>, fixed0_text(pos[2]) >>,
    << <<"%", "z">>, fixed0_text(pos[3]) >>,
    << <<"%", "c", "x">>, to_string(cell_coordinate(pos[1])) >>,
    << <<"%", "c", "y">>, to_string(cell_coordinate(pos[2])) >>,
    << <<"%", "w", "n">>, name_text(wn.ptr, wn.text) >>,
    << <<"%", "c", "n">>, name_text(cn.ptr, cn.text) >>
>>

player_location_checks_x_only(leaf, pos) ==
    leaf = 0 \/ ~isfinite(pos[1])

\* lines 142-144: the guard of player_location
player_location_unavailable(leaf, pos) ==
    leaf = 0 \/ ~isfinite(pos[1]) \/ ~isfinite(pos[2]) \/ ~isfinite(pos[3])

\* player_location (format), given the pointers the three chains resolved to and
\* what is stored there
player_location(format, leaf, pos, wn, cn) ==
    IF player_location_unavailable(leaf, pos) THEN NA
    ELSE replace_each(format, player_location_tokens(pos, wn, cn))

-----------------------------------------------------------------------------
(* make_variables *)

\* lines 93, 106, 110, 119: the initializers of the four chains
DefaultChains == [
    game_epoch      |-> << 32259016, 52 >>,         \* 0x1ec3bc8, 0x34
    player_pos      |-> << 49442552, 84 >>,         \* 0x2f26ef8, 0x54
    player_cell     |-> << 49442552, 96, 40, 0 >>,  \* 0x2f26ef8, 0x60, 0x28, 0
    worldspace_name |-> << 49442552, 1576, 40, 0 >> \* 0x2f26ef8, 0x628, 0x28, 0x00
]

TargetNames == { "GameTime", "GameTime.Offset", "PlayerCharacter",
                 "PlayerCharacter.Position", "PlayerCharacter.Cell",
                 "PlayerCharacter.Worldspace", "Worldspace.Fullname", "Cell.Fullname" }

\* sseh.find_target (name, &slot): the slot afterwards.  The collaborator is not
\* part of this file: answer.db[name] is the offset it knows for the name (0: it
\* knows none), and on an unknown name it either leaves the slot alone or zeroes it.
find_target(answer, name, slot) ==
    IF answer.db[name] # 0 THEN answer.db[name]
    ELSE IF answer.zero_on_miss THEN 0
    ELSE slot

\* lines 294-306: the chains after the wiring
wire(ch, answer) ==
    IF ~answer.service THEN ch
    ELSE LET root == find_target(answer, "PlayerCharacter", ch.player_pos[1])
         IN [ game_epoch |->
                << find_target(answer, "GameTime", ch.game_epoch[1]),
                   find_target(answer, "GameTime.Offset", ch.game_epoch[2]) >>,
              player_pos |->
                << root,
                   find_target(answer, "PlayerCharacter.Position", ch.player_pos[2]) >>,
              player_cell |->
                << root,
                   find_target(answer, "PlayerCharacter.Cell", ch.player_cell[2]),
                   find_target(answer, "Cell.Fullname", ch.player_cell[3]),
                   ch.player_cell[4] >>,
              worldspace_name |->
                << root,
                   find_target(answer, "PlayerCharacter.Worldspace", ch.worldspace_name[2]),
                   find_target(answer, "Worldspace.Fullname", ch.worldspace_name[3]),
                   ch.worldspace_name[4] >> ]

\* the three variable_t make_variables can add (info left out)
gtime == [ fuid |-> 1, deletable |-> FALSE, name |-> "Game time (fixed)",
           params |-> <<"%", "h", ":", "%", "m", " ", "%", "l", "d", ",", " ", "d", "a", "y", " ", "%", "m", "d", " ", "o", "f", " ", "%", "l", "m", ",", " ", "%", "Y">>,
           apply |-> "game_time" ]

ppos == [ fuid |-> 3, deletable |-> FALSE, name |-> "Player position (fixed)",
          params |-> <<"%", "w", "n", ",", " ", "%", "c", "n", ":", " ", "%", "x", " ", "%", "y", " ", "%", "z">>,
          apply |-> "player_location" ]

ltime == [ fuid |-> 2, deletable |-> FALSE, name |-> "Local time (fixed)",
           params |-> <<"%", "X", " ", "%", "x">>,
           apply |-> "local_time" ]

catalog_unguarded(ch) == << gtime, ppos, ltime >>

\* lines 308-361: the vector make_variables returns
catalog(ch) ==
    (IF ch.game_epoch[1] # 0 THEN << gtime >> ELSE << >>)
    \o (IF ch.player_pos[1] # 0 THEN << ppos >> ELSE << >>)
    \o << ltime >>

HasVariable(apply) == \E i \in 1 .. Len(vars) : vars[i].apply = apply

-----------------------------------------------------------------------------
(* The inputs the calls are given *)

\* largest offset the discovery collaborator reports (catalog specification)
MaxFound == 1
\* largest whole game day in the calendar specification (below 512, where a
\* float still carries the fractions used)
MaxDay == 510

NoAnswer == [ service |-> FALSE, zero_on_miss |-> FALSE, db |-> [n \in TargetNames |-> 0] ]

\* every answer of a collaborator that is present, and the missing service
Answers ==
    { [ service |-> TRUE, zero_on_miss |-> z, db |-> d ] :
        z \in BOOLEAN, d \in [TargetNames -> 0 .. MaxFound] } \cup { NoAnswer }

AllFound == [n \in TargetNames |-> 1]

\* the answers the render specifications start from
RenderAnswers == {
    NoAnswer,
    [ service |-> TRUE, zero_on_miss |-> FALSE, db |-> AllFound ],
    [ service |-> TRUE, zero_on_miss |-> TRUE, db |-> [AllFound EXCEPT !["GameTime"] = 0] ],
    [ service |-> TRUE, zero_on_miss |-> TRUE, db |-> [AllFound EXCEPT !["PlayerCharacter"] = 0] ]
}

\* host memory as the pointer-sized word at each address: every word v, or
\* every word v but a null one at z
MemImages ==
    { [a \in Addr |-> IF a = z THEN 0 ELSE v] : z \in 0 .. AddrSpace, v \in Addr \ {0} }

Float(ip, fn) == [ cls |-> "normal", neg |-> FALSE, ip |-> ip, fn |-> fn ]
ZeroF == [ cls |-> "zero", neg |-> FALSE, ip |-> 0, fn |-> 0 ]
NaNF == [ cls |-> "nan", neg |-> FALSE, ip |-> 0, fn |-> 0 ]
InfF == [ cls |-> "inf", neg |-> FALSE, ip |-> 0, fn |-> 0 ]
SubnormalF == [ cls |-> "subnormal", neg |-> FALSE, ip |-> 0, fn |-> 0 ]
Negative(f) == [ f EXCEPT !.neg = TRUE ]

\* 0.45f = 15099494 * 2^-25
Float045 == Float(0, 15099494)

\* the floats game_time is rendered on
RenderRaw == { ZeroF, NaNF, InfF, SubnormalF, Negative(Float(1, 0)),
               Float045, Float(1, 0), Float(0, FracDen - 2), Float(136, 25165824) }

\* the floats of the calendar specification: whole days 0 .. MaxDay with the
\* fractions 0, 1/2 and 1 - 2^-15, the floats next to 1 and to 0, and the two
\* largest floats below 2^31
CalendarRaw ==
    { Float(d, fn) : d \in 0 .. MaxDay, fn \in {0, 16777216, 33553408} }
    \cup { Float045, Float(0, FracDen - 2), Float(0, 1) }
    \cup { Float(2147483392, 0), Float(2147483520, 0) }

\* the positions player_location is rendered on: 1.25 / -0.25 / 4096,
\* -4096.75 / 8191.75 / 0, and three with one coordinate that is not finite
Positions == {
    << Float(1, 8388608), Negative(Float(0, 8388608)), Float(4096, 0) >>,
    << Negative(Float(4096, 25165824)), Float(8191, 25165824), ZeroF >>,
    << NaNF, Float(1, 0), Float(1, 0) >>,
    << Float(1, 0), InfF, Float(1, 0) >>,
    << Float(1, 0), Float(1, 0), Negative(InfF) >>
}

\* the texts a name pointer leads to
Names == { <<>>, <<"W">>, <<"%", "c", "n">> }

\* what a read outside a name table yields
Garbage == { <<>>, <<"?">> }

TimeTokens == { p[1] : p \in { game_time_tokens(calendar(Float045), Float045, <<>>)[i] : i \in 1 .. 15 } }
LocationTokens ==
    { p[1] : p \in { player_location_tokens(<<ZeroF, ZeroF, ZeroF>>,
                                            [ptr |-> 0, text |-> <<>>],
                                            [ptr |-> 0, text |-> <<>>])[i] : i \in 1 .. 7 } }

Join2(P) == { a \o b : a \in P \cup { <<>> }, b \in P \cup { <<>> } }

\* format strings: up to two pieces, each an escape or one of a few characters
TimeFormats ==
    Join2(TimeTokens \cup { <<"%">>, <<"o">>, <<"d">>, <<"i">>, <<"x">> }) \cup { gtime.params }
LocationFormats ==
    Join2(LocationTokens \cup { <<"%">>, <<"c">>, <<"n">>, <<"x">> }) \cup { ppos.params }

-----------------------------------------------------------------------------
(* State *)

NoName == [ ptr |-> 0, text |-> <<>> ]
NoCalendar == [ h |-> 0, m |-> 0, s |-> 0, d |-> 0, y |-> 0, yd |-> 0, wd |-> 0,
                mo |-> 0, md |-> 0 ]
NoCall == [ kind |-> "none", fmt |-> <<>>, out |-> <<>>, leaf |-> 0, vals |-> <<>>,
            source |-> ZeroF, pos |-> <<ZeroF, ZeroF, ZeroF>>, wn |-> NoName,
            cn |-> NoName, cal |-> NoCalendar, garbage |-> <<>> ]
IdleReplace == [ text |-> <<>>, search |-> <<"%">>, replace |-> <<>>, data |-> <<>>,
                 n |-> npos, pc |-> "idle", iters |-> 0 ]
IdleObtain == [ base |-> 0, offsets |-> <<0, 0>>, mem |-> [a \in Addr |-> 0],
                pc |-> "idle", result |-> 0, reads |-> <<>> ]

\* the process before make_variables ran
Init ==
    /\ skyrim_base = 0
    /\ chains = DefaultChains
    /\ vars = << >>
    /\ pc = "start"
    /\ sseh = NoAnswer
    /\ call = NoCall
    /\ ra = IdleReplace
    /\ ob = IdleObtain

-----------------------------------------------------------------------------
(* Actions *)

\* make_variables (), with the collaborator answering one of AnswerSet
make_variables(AnswerSet) ==
    /\ pc = "start"
    /\ \E base \in Addr \ {0}, answer \in AnswerSet :
        /\ skyrim_base' = base
        /\ chains' = wire(chains, answer)
        /\ sseh' = answer
    /\ vars' = catalog(chains')
    /\ pc' = "ready"
    /\ UNCHANGED <<call, ra, ob>>

\* the pointer-sized values a walk read, in order
values_read(mem, reads) == [k \in 1 .. Len(reads) |-> mem[reads[k]]]

\* gtime.apply: game_time (self->params)
apply_game_time(Formats, Mems, Raws) ==
    /\ pc = "ready"
    /\ call.kind = "none"
    /\ HasVariable("game_time")
    /\ \E mem \in Mems :
        LET o == obtain(skyrim_base, chains.game_epoch, mem)
        IN \E source \in (IF o.result = 0 THEN {ZeroF} ELSE Raws) :
            LET c == IF game_time_unavailable(o.result, source)
                     THEN NoCalendar ELSE calendar(source)
                outside == c.mo \notin 0 .. 11 \/ c.wd \notin 0 .. 6
            IN \E garbage \in (IF outside THEN Garbage ELSE { <<>> }), format \in Formats :
                call' = [ kind |-> "game_time", fmt |-> format,
                          out |-> game_time(format, o.result, source, garbage),
                          leaf |-> o.result, vals |-> values_read(mem, o.reads),
                          source |-> source, pos |-> NoCall.pos, wn |-> NoName,
                          cn |-> NoName, cal |-> c, garbage |-> garbage ]
    /\ UNCHANGED <<skyrim_base, chains, vars, pc, sseh, ra, ob>>

\* ppos.apply: player_location (self->params)
apply_player_location(Formats, Mems, Triples, Texts) ==
    /\ pc = "ready"
    /\ call.kind = "none"
    /\ HasVariable("player_location")
    /\ \E mem \in Mems :
        LET p == obtain(skyrim_base, chains.player_pos, mem)
        IN \E pos \in (IF p.result = 0 THEN {NoCall.pos} ELSE Triples) :
            LET stop == player_location_unavailable(p.result, pos)
                w == IF stop THEN 0 ELSE obtain(skyrim_base, chains.worldspace_name, mem).result
                c == IF stop THEN 0 ELSE obtain(skyrim_base, chains.player_cell, mem).result
            IN \E wtext \in (IF w = 0 THEN { <<>> } ELSE Texts),
                  ctext \in (IF c = 0 THEN { <<>> } ELSE Texts),
                  format \in Formats :
                LET wn == [ptr |-> w, text |-> wtext]
                    cn == [ptr |-> c, text |-> ctext]
                IN call' = [ kind |-> "player_location", fmt |-> format,
                             out |-> player_location(format, p.result, pos, wn, cn),
                             leaf |-> p.result, vals |-> values_read(mem, p.reads),
                             source |-> ZeroF, pos |-> pos, wn |-> wn, cn |-> cn,
                             cal |-> NoCalendar, garbage |-> <<>> ]
    /\ UNCHANGED <<skyrim_base, chains, vars, pc, sseh, ra, ob>>

\* the render hands its text to the caller (renders are synchronous: one at a time)
apply_return ==
    /\ call.kind # "none"
    /\ call' = NoCall
    /\ UNCHANGED <<skyrim_base, chains, vars, pc, sseh, ra, ob>>

\* replace_all, line 127: n = data.find (search)
replace_all_find ==
    /\ ra.pc = "call"
    /\ ra' = [ra EXCEPT !.n = find(ra.data, ra.search, 0), !.pc = "loop"]
    /\ UNCHANGED <<skyrim_base, chains, vars, pc, sseh, call, ob>>

\* replace_all, lines 128-132: one turn of the while loop
replace_all_body ==
    /\ ra.pc = "loop"
    /\ ra.n # npos
    /\ LET s == replace_step(ra.data, ra.n, ra.search, ra.replace)
       IN ra' = [ra EXCEPT !.data = s.data, !.n = s.n, !.iters = ra.iters + 1]
    /\ UNCHANGED <<skyrim_base, chains, vars, pc, sseh, call, ob>>

\* replace_all, line 128 with n == npos: the loop ends
replace_all_return ==
    /\ ra.pc = "loop"
    /\ ra.n = npos
    /\ ra' = [ra EXCEPT !.pc = "done"]
    /\ UNCHANGED <<skyrim_base, chains, vars, pc, sseh, call, ob>>

\* relocation::obtain on the chain and memory of ob
obtain_call ==
    /\ ob.pc = "call"
    /\ LET o == obtain(ob.base, ob.offsets, ob.mem)
       IN ob' = [ob EXCEPT !.result = o.result, !.reads = o.reads, !.pc = "done"]
    /\ UNCHANGED <<skyrim_base, chains, vars, pc, sseh, call, ra>>

-----------------------------------------------------------------------------
(* Specifications *)

\* the catalog builder, for every answer of the collaborator
MakeVariables == make_variables(Answers)
Next == MakeVariables
Spec == Init /\ [][Next]_allvars

\* the two game variables rendered after the wiring
MakeVariablesRender == make_variables(RenderAnswers)
ApplyGameTime == apply_game_time(TimeFormats, MemImages, RenderRaw)
ApplyPlayerLocation == apply_player_location(LocationFormats, MemImages, Positions, Names)
NextRender == MakeVariablesRender \/ ApplyGameTime \/ ApplyPlayerLocation \/ apply_return
SpecRender == Init /\ [][NextRender]_allvars

\* the calendar over the days
MakeVariablesDefault == make_variables({NoAnswer})
ApplyGameTimeDays ==
    apply_game_time({ <<>>, gtime.params }, { [a \in Addr |-> 1] }, CalendarRaw)
NextCalendar == MakeVariablesDefault \/ ApplyGameTimeDays \/ apply_return
SpecCalendar == Init /\ [][NextCalendar]_allvars

\* replace_all on every text, token and replacement over % and x
Alphabet == { "%", "x" }
InitReplace ==
    /\ skyrim_base = 0 /\ chains = DefaultChains /\ vars = << >> /\ pc = "start"
    /\ sseh = NoAnswer /\ call = NoCall /\ ob = IdleObtain
    /\ \E text \in SeqsUpTo(Alphabet, MaxText),
          search \in SeqsUpTo(Alphabet, MaxToken) \ { <<>> },
          replace \in SeqsUpTo(Alphabet, MaxRepl) :
        ra = [ text |-> text, search |-> search, replace |-> replace, data |-> text,
               n |-> npos, pc |-> "call", iters |-> 0 ]
NextReplace == replace_all_find \/ replace_all_body \/ replace_all_return
SpecReplace == InitReplace /\ [][NextReplace]_allvars

\* obtain on every chain of one or three hops over every memory
InitObtain ==
    /\ skyrim_base = 0 /\ chains = DefaultChains /\ vars = << >> /\ pc = "start"
    /\ sseh = NoAnswer /\ call = NoCall /\ ra = IdleReplace
    /\ \E hops \in HopCounts, base \in Addr \ {0} :
        \E offsets \in [1 .. (hops + 1) -> Addr], mem \in [Addr -> Addr] :
            ob = [ base |-> base, offsets |-> offsets, mem |-> mem, pc |-> "call",
                   result |-> 0, reads |-> <<>> ]
NextObtain == obtain_call
SpecObtain == InitObtain /\ [][NextObtain]_allvars

-----------------------------------------------------------------------------
(* Vocabulary of the properties *)

IsPrefix(p, s) == Len(p) <= Len(s) /\ SubSeq(s, 1, Len(p)) = p

Occurs(token, text) ==
    \E i \in 0 .. (Len(text) - Len(token)) : SubSeq(text, i + 1, i + Len(token)) = token

HasNoToken(text, Tokens) == \A token \in Tokens : ~Occurs(token, text)

\* text with every occurrence of token, found left to right without overlap,
\* replaced: one pass that never looks at what it wrote
RECURSIVE scan(_, _, _)
scan(text, token, replacement) ==
    IF text = <<>> THEN <<>>
    ELSE IF IsPrefix(token, text)
         THEN replacement \o scan(SubSeq(text, Len(token) + 1, Len(text)), token, replacement)
         ELSE << Head(text) >> \o scan(Tail(text), token, replacement)

\* text with every escape replaced by its value in one pass, the longest escape
\* that matches at a position winning
RECURSIVE single_pass(_, _)
single_pass(text, pairs) ==
    IF text = <<>> THEN <<>>
    ELSE LET hits == { i \in 1 .. Len(pairs) : IsPrefix(pairs[i][1], text) }
         IN IF hits = {}
            THEN << Head(text) >> \o single_pass(Tail(text), pairs)
            ELSE LET i == CHOOSE j \in hits :
                            \A k \in hits : Len(pairs[k][1]) <= Len(pairs[j][1])
                 IN pairs[i][2]
                      \o single_pass(SubSeq(text, Len(pairs[i][1]) + 1, Len(text)), pairs)

\* in the order of the replace_all calls, an escape that another escape is a
\* prefix of comes before that shorter escape
LongerFirst(pairs) ==
    \A i, j \in 1 .. Len(pairs) :
        (i # j /\ IsPrefix(pairs[j][1], pairs[i][1])) => i < j

\* the collaborator reported an offset for the name
Discovered(name) == sseh.service /\ sseh.db[name] # 0

\* the chain slot make_variables hands to find_target for the name
SlotOf(ch, name) ==
    CASE name = "GameTime" -> ch.game_epoch[1]
      [] name = "GameTime.Offset" -> ch.game_epoch[2]
      [] name = "PlayerCharacter" -> ch.player_pos[1]
      [] name = "PlayerCharacter.Position" -> ch.player_pos[2]
      [] name = "PlayerCharacter.Cell" -> ch.player_cell[2]
      [] name = "PlayerCharacter.Worldspace" -> ch.worldspace_name[2]
      [] name = "Worldspace.Fullname" -> ch.worldspace_name[3]
      [] name = "Cell.Fullname" -> ch.player_cell[3]

\* a hop of the walk of the render in progress read a null pointer
NullHop == \E k \in 1 .. Len(call.vals) : call.vals[k] = 0

\* the render in progress got its value: a pointer that is not null and, there,
\* a normal float that is not negative / three finite floats
TimeAvailable ==
    /\ call.kind = "game_time"
    /\ call.leaf # 0
    /\ call.source.cls = "normal" /\ ~call.source.neg
PositionAvailable ==
    /\ call.kind = "player_location"
    /\ call.leaf # 0
    /\ \A i \in 1 .. 3 : call.pos[i].cls \notin {"nan", "inf"}

BuiltInsWellFormed ==
    /\ \A i \in 1 .. Len(vars) : ~vars[i].deletable
    /\ \A i, j \in 1 .. Len(vars) : vars[i].fuid = vars[j].fuid => i = j

-----------------------------------------------------------------------------
(* C1: a chain whose root offset is 0 resolves to null without any read *)

\* C1: whenever obtain has run on a chain with offsets[0] = 0, it returned
\* nullptr and dereferenced nothing.
C1_RootZeroShortCircuits ==
    (ob.pc = "done" /\ ob.offsets[1] = 0) => (ob.result = 0 /\ ob.reads = <<>>)

-----------------------------------------------------------------------------
(* C2: obtain stops at the first null hop and does not dereference the leaf *)

\* C2: obtain reads hop after hop, each address being the pointer read before
\* plus the hop's offset; a hop that reads zero is the last read and the result
\* is null; with no zero read it made exactly N reads and returns the last
\* pointer plus offsets[N], which is not read.
C2_ObtainWalk ==
    ob.pc = "done" =>
        LET N == Len(ob.offsets) - 1
            R == ob.reads
        IN /\ Len(R) \in 1 .. N
           /\ R[1] = (ob.base + ob.offsets[1]) % AddrSpace
           /\ \A k \in 2 .. Len(R) :
                /\ ob.mem[R[k - 1]] # 0
                /\ R[k] = (ob.mem[R[k - 1]] + ob.offsets[k]) % AddrSpace
           /\ IF ob.mem[R[Len(R)]] = 0
              THEN ob.result = 0
              ELSE /\ Len(R) = N
                   /\ ob.result = (ob.mem[R[N]] + ob.offsets[N + 1]) % AddrSpace

\* a three-hop walk that met a null pointer at its second hop
C2_Witness ==
    /\ ob.pc = "done"
    /\ Len(ob.offsets) = 4
    /\ Len(ob.reads) = 2
    /\ ob.mem[ob.reads[2]] = 0
    /\ ob.result = 0

-----------------------------------------------------------------------------
(* C3: replace_all terminates and never re-expands what it inserted *)

\* C3: for a non-empty token the loop runs at most once per character of the
\* text, and when it ends data is the text with every non-overlapping
\* occurrence replaced in one left-to-right pass; "%x" with "%x" -> "%x%x"
\* gives "%x%x".
C3_ReplaceAllSinglePass ==
    /\ ra.iters <= Len(ra.text)
    /\ ra.pc = "done" => ra.data = scan(ra.text, ra.search, ra.replace)
    /\ ( /\ ra.pc = "done"
         /\ ra.text = <<"%", "x">>
         /\ ra.search = <<"%", "x">>
         /\ ra.replace = <<"%", "x", "%", "x">> )
       => ra.data = <<"%", "x", "%", "x">>

\* the run of the example, ended after one turn of the loop
C3_Witness ==
    /\ ra.pc = "done"
    /\ ra.text = <<"%", "x">>
    /\ ra.search = <<"%", "x">>
    /\ ra.replace = <<"%", "x", "%", "x">>
    /\ ra.iters = 1
    /\ ra.data = <<"%", "x", "%", "x">>

-----------------------------------------------------------------------------
(* C4: a format string without escapes comes back unchanged *)

\* C4 as stated: every render of a format string holding none of the
\* formatter's escapes returns the format string.
C4_NoEscapeUnchanged ==
    /\ (call.kind = "game_time" /\ HasNoToken(call.fmt, TimeTokens))
         => call.out = call.fmt
    /\ (call.kind = "player_location" /\ HasNoToken(call.fmt, LocationTokens))
         => call.out = call.fmt

\* C4 amended: a render of a format string holding none of the formatter's
\* escapes returns the format string when the value is available, and the
\* sentinel "(n/a)" when it is not.
C4_NoEscapeUnchangedWhenAvailable ==
    /\ (call.kind = "game_time" /\ HasNoToken(call.fmt, TimeTokens))
         => call.out = IF TimeAvailable THEN call.fmt ELSE NA
    /\ (call.kind = "player_location" /\ HasNoToken(call.fmt, LocationTokens))
         => call.out = IF PositionAvailable THEN call.fmt ELSE NA

\* both formatters returned a non-empty format string without escapes as it was
C4_Witness ==
    \/ /\ TimeAvailable
       /\ call.fmt = <<"%", "x">>
       /\ call.out = call.fmt
    \/ /\ PositionAvailable
       /\ call.fmt = <<"%", "c">>
       /\ call.out = call.fmt

-----------------------------------------------------------------------------
(* C5: the calendar of the epoch examples *)

Text_ld == <<"%", "l", "d">>
Text_lm == <<"%", "l", "m">>
Text_h == <<"%", "h">>
Text_m == <<"%", "m">>
Text_s == <<"%", "s">>
Text_y == <<"%", "y">>
Text_mo == <<"%", "m", "o">>
Text_md == <<"%", "m", "d">>

\* what the examples say of one raw value, escape by escape
EpochDay(h, m, s) ==
    /\ call.fmt = Text_ld => call.out = <<"S", "u", "n", "d", "a", "s">>
    /\ call.fmt = Text_y => call.out = <<"2", "0", "1">>
    /\ call.fmt = Text_mo => call.out = <<"8">>
    /\ call.fmt = Text_lm => call.out = <<"L", "a", "s", "t", " ", "S", "e", "e", "d">>
    /\ call.fmt = Text_md => call.out = <<"1", "7">>
    /\ call.fmt = Text_h => call.out = h
    /\ call.fmt = Text_m => call.out = m
    /\ call.fmt = Text_s => call.out = s

-----------------------------------------------------------------------------
(* C6: the values the calendar derives stay in range *)

\* C6: for every accepted raw day count below 2^31 game_time derives a year
\* >= 201, a month index 0..11 that is the first table entry >= yearDay, a day of
\* month 1..31 equal to yearDay less the previous entry, a weekday 0..6, an hour
\* 0..23, a minute and a second 0..59; yearDay 365 is month 11, day 31; no name
\* table is read outside its entries.
C6_CalendarInRange ==
    TimeAvailable =>
        LET c == call.cal
        IN /\ c.y >= 201
           /\ c.mo \in 0 .. 11
           /\ c.md \in 1 .. 31
           /\ c.wd \in 0 .. 6
           /\ c.h \in 0 .. 23
           /\ c.m \in 0 .. 59
           /\ c.s \in 0 .. 59
           /\ c.mo \in 0 .. 11 =>
                /\ months[c.mo + 1] >= c.yd
                /\ \A i \in 1 .. c.mo : months[i] < c.yd
                /\ c.md = (IF c.mo = 0 THEN c.yd ELSE c.yd - months[c.mo])
           /\ c.yd = 365 => (c.mo = 11 /\ c.md = 31)

-----------------------------------------------------------------------------
(* C7: an unavailable value renders as "(n/a)" *)

\* C7 as stated: when the chain root was never discovered, a hop is null, a
\* coordinate is not finite or the epoch time is not normal or negative, the
\* render is exactly "(n/a)".
C7_UnavailableIsSentinel ==
    /\ ( /\ call.kind = "game_time"
         /\ \/ ~Discovered("GameTime")
            \/ NullHop
            \/ ~isnormal(call.source)
            \/ less_than_zero(call.source) )
       => call.out = NA
    /\ ( /\ call.kind = "player_location"
         /\ \/ ~Discovered("PlayerCharacter")
            \/ NullHop
            \/ \E i \in 1 .. 3 : ~isfinite(call.pos[i]) )
       => call.out = NA

\* C7 amended: when a hop is null, a coordinate is not finite or the epoch time
\* is not normal or negative, the render is exactly "(n/a)"; a variable whose
\* root slot is zero is never rendered (it is not in the catalog), and a root
\* that was not discovered but kept its built-in offset is resolved like any
\* other.
C7_UnresolvedIsSentinel ==
    /\ ( /\ call.kind = "game_time"
         /\ \/ NullHop
            \/ ~isnormal(call.source)
            \/ less_than_zero(call.source) )
       => call.out = NA
    /\ ( /\ call.kind = "player_location"
         /\ \/ NullHop
            \/ \E i \in 1 .. 3 : ~isfinite(call.pos[i]) )
       => call.out = NA
    /\ call.kind = "game_time" => chains.game_epoch[1] # 0
    /\ call.kind = "player_location" => chains.player_pos[1] # 0

\* the default position format rendered on a position whose y is infinite
C7_Witness ==
    /\ call.kind = "player_location"
    /\ call.leaf # 0
    /\ ~isfinite(call.pos[2])
    /\ call.fmt = ppos.params
    /\ call.out = NA

-----------------------------------------------------------------------------
(* C8: world and cell name are inserted verbatim *)

\* C8: with a valid position the output is the format string with every escape
\* replaced by its own value: %wn and %cn by the name texts (nothing for an
\* absent name), untouched by the other substitutions, the coordinates by the
\* same texts whatever the names are; an absent name does not make it "(n/a)".
C8_NamesVerbatim ==
    PositionAvailable =>
        call.out = single_pass(call.fmt, player_location_tokens(call.pos, call.wn, call.cn))

-----------------------------------------------------------------------------
(* C9: the catalog make_variables builds *)

\* C9 as stated: a game variable is in the catalog only if its root offset was
\* discovered, an undiscovered name leaves its slot at zero, the local time is
\* always there, every entry is non-deletable and the identifiers differ.
C9_CatalogOnlyIfDiscovered ==
    pc = "ready" =>
        /\ HasVariable("game_time") => Discovered("GameTime")
        /\ HasVariable("player_location") => Discovered("PlayerCharacter")
        /\ \A name \in TargetNames : ~Discovered(name) => SlotOf(chains, name) = 0
        /\ HasVariable("local_time")
        /\ BuiltInsWellFormed

\* C9 amended: a game variable is in the catalog exactly when the root slot of
\* its chain is not zero after the wiring; a discovered name's slot holds the
\* reported offset, an undiscovered one holds its built-in offset unless the
\* collaborator zeroed it, and with the service missing every slot keeps its
\* built-in offset, so both game variables are in the catalog; the local time is
\* always there, every entry is non-deletable and the identifiers differ.
C9_CatalogFollowsRootSlots ==
    pc = "ready" =>
        /\ HasVariable("game_time") <=> chains.game_epoch[1] # 0
        /\ HasVariable("player_location") <=> chains.player_pos[1] # 0
        /\ \A name \in TargetNames :
            SlotOf(chains, name) =
                IF Discovered(name) THEN sseh.db[name]
                ELSE IF sseh.service /\ sseh.zero_on_miss THEN 0
                ELSE SlotOf(DefaultChains, name)
        /\ chains.player_cell[1] = chains.player_pos[1]
        /\ chains.worldspace_name[1] = chains.player_pos[1]
        /\ ~sseh.service =>
            (chains = DefaultChains /\ HasVariable("game_time")
               /\ HasVariable("player_location"))
        /\ HasVariable("local_time")
        /\ BuiltInsWellFormed

\* the catalog of a process without the discovery service: all three variables
C9_Witness ==
    /\ pc = "ready"
    /\ ~sseh.service
    /\ Len(vars) = 3
    /\ HasVariable("game_time")

-----------------------------------------------------------------------------
(* C10: longer escapes are replaced before the escapes that are their prefix *)

\* C10: in both formatters the replace_all calls come in an order where an
\* escape with a shorter escape as prefix precedes it, and a calendar render is
\* the format string with, at every position, the longest matching escape
\* replaced by its own value.
C10_LongerEscapesFirst ==
    /\ TimeAvailable =>
        LET pairs == game_time_tokens(call.cal, call.source, call.garbage)
        IN /\ LongerFirst(pairs)
           /\ call.out = single_pass(call.fmt, pairs)
    /\ PositionAvailable =>
        LongerFirst(player_location_tokens(call.pos, call.wn, call.cn))

\* "%md" followed by "o" rendered as the day of month and the letter
C10_Witness ==
    /\ TimeAvailable
    /\ call.source = Float045
    /\ call.fmt = <<"%", "m", "d", "o">>
    /\ call.out = <<"1", "7", "o">>

====
